---- MODULE Spec2Model ----
(***************************************************************************)
(* Model of src/src/App.tsx (StockTrackerApp): the transaction log, the    *)
(* fee/tax calculator, the form handler that appends transactions and the  *)
(* replay loop of the holdings / realizedGains memo.                       *)
(*                                                                         *)
(* Numbers.  The program computes with IEEE-754 doubles.  The model        *)
(* computes with exact rationals <<n, d>> (d > 0, lowest terms), so a      *)
(* result of the model is the real-number value of the program's           *)
(* expression; rounding of the last bit is not modelled.                   *)
(***************************************************************************)
EXTENDS Integers, Sequences, FiniteSets, TLC

VARIABLES
    transactions,        \* useState<Transaction[]>            (line 82)
    settings,            \* useState<AppSettings>              (line 83)
    manualPrices,        \* useState<Record<string, number>>   (line 84)
    pc,                  \* position of the memo's replay: "idle" | "replay" | "done"
    sortedTrans,         \* const sortedTrans                  (line 155)
    idx,                 \* number of elements forEach has processed (line 157)
    tempHoldings,        \* const tempHoldings                 (line 144)
    tempRealized,        \* const tempRealized                 (line 153)
    clock,               \* the last reading of Date.now()
    inputs,              \* the forms the user submits in this run
    cIn,                 \* <<arguments>> of a calculateTransactionAmount call
    cOut,                \* <<its return value>>, empty before the call
    localStorage,        \* <<the item 'stock_tracker_data_v4'>>, empty when absent
    queued,              \* <<the state the load effect has set>>, until it is rendered
    mount,               \* position of the startup: "load" | "save" | "render" | "mounted"
    persisted            \* what localStorage held when the page was last opened

vars == <<transactions, settings, manualPrices, pc, sortedTrans, idx,
          tempHoldings, tempRealized, clock, inputs, cIn, cOut,
          localStorage, queued, mount, persisted>>


-----------------------------------------------------------------------------
(* Exact rational arithmetic standing for the program's number type.       *)

RECURSIVE GCD(_, _)
GCD(a, b) == IF b = 0 THEN a ELSE GCD(b, a % b)

Abs(a) == IF a < 0 THEN -a ELSE a

Rat(n, d) ==
    LET g == GCD(Abs(n), Abs(d))
        s == IF d < 0 THEN -1 ELSE 1
    IN  <<s * (n \div g), s * (d \div g)>>

Num(n) == <<n, 1>>

\* the number NaN: no rational has denominator 0
NaN == <<0, 0>>

\* isNaN
IsNaN(a) == a[2] = 0

RAdd(a, b) ==
    LET g == GCD(a[2], b[2])
    IN  Rat(a[1] * (b[2] \div g) + b[1] * (a[2] \div g), (a[2] \div g) * b[2])

RNeg(a) == <<-a[1], a[2]>>

RSub(a, b) == RAdd(a, RNeg(b))

RMul(a, b) ==
    LET g1 == GCD(Abs(a[1]), b[2])
        g2 == GCD(Abs(b[1]), a[2])
    IN  Rat((a[1] \div g1) * (b[1] \div g2), (a[2] \div g2) * (b[2] \div g1))

\* a / b for b # 0
RDiv(a, b) == RMul(a, Rat(b[2], b[1]))

RLt(a, b) == RSub(a, b)[1] < 0
RLe(a, b) == RSub(a, b)[1] <= 0
RGt(a, b) == RLt(b, a)
RGe(a, b) == RLe(b, a)

\* Math.floor
RFloor(a) == Num(a[1] \div a[2])

\* Math.max
RMax(a, b) == IF RLt(a, b) THEN b ELSE a

Zero == Num(0)

-----------------------------------------------------------------------------
(* Strings the handlers convert.  A text is a sequence of one-character    *)
(* strings, so that parseFloat and toUpperCase can be computed.            *)

DigitValue(c) ==
    CASE c = "0" -> 0 [] c = "1" -> 1 [] c = "2" -> 2 [] c = "3" -> 3
      [] c = "4" -> 4 [] c = "5" -> 5 [] c = "6" -> 6 [] c = "7" -> 7
      [] c = "8" -> 8 [] c = "9" -> 9 [] OTHER -> -1

IsDigit(c) == DigitValue(c) >= 0

\* number of leading decimal digits of s
RECURSIVE DigitRun(_)
DigitRun(s) ==
    IF s = <<>> \/ ~IsDigit(Head(s)) THEN 0 ELSE 1 + DigitRun(Tail(s))

\* value of a sequence of decimal digits
RECURSIVE DigitsValue(_)
DigitsValue(s) ==
    IF s = <<>> THEN 0
    ELSE 10 * DigitsValue(SubSeq(s, 1, Len(s) - 1)) + DigitValue(s[Len(s)])

RECURSIVE Pow10(_)
Pow10(k) == IF k = 0 THEN 1 ELSE 10 * Pow10(k - 1)

\* parseFloat: the longest prefix [+-]digits[.digits] of the text, NaN when
\* that prefix holds no digit (exponents are not among the modelled inputs)
ParseFloat(s) ==
    LET signed == s # <<>> /\ Head(s) \in {"-", "+"}
        neg    == s # <<>> /\ Head(s) = "-"
        body   == IF signed THEN Tail(s) ELSE s
        ni     == DigitRun(body)
        rest   == SubSeq(body, ni + 1, Len(body))
        nf     == IF rest # <<>> /\ Head(rest) = "." THEN DigitRun(Tail(rest)) ELSE 0
        ip     == DigitsValue(SubSeq(body, 1, ni))
        fp     == DigitsValue(SubSeq(rest, 2, nf + 1))
        mag    == Rat(ip * Pow10(nf) + fp, Pow10(nf))
    IN  IF ni + nf = 0 THEN NaN
        ELSE IF neg THEN RNeg(mag) ELSE mag

UpperChar(c) ==
    CASE c = "a" -> "A" [] c = "b" -> "B" [] OTHER -> c

\* String.prototype.toUpperCase
ToUpperCase(s) == [i \in 1..Len(s) |-> UpperChar(s[i])]

-----------------------------------------------------------------------------
(* Settings (AppSettings) and the fee / tax calculator.                    *)

DEFAULT_SETTINGS ==
    [ twFeeRate      |-> Rat(1425, 1000000),
      twDiscount     |-> Rat(6, 10),
      twTaxRateStock |-> Rat(3, 1000),
      twTaxRateETF   |-> Rat(1, 1000),
      twMinFee       |-> Num(20),
      usFeeRate      |-> Rat(1, 1000),
      usMinFee       |-> Num(0),
      usTaxRate      |-> Rat(8, 1000000) ]

\* line 297, with the integer flooring left out
TwFee_NoFloor(s, rawAmount) ==
    RMax(s.twMinFee, RMul(RMul(rawAmount, s.twFeeRate), s.twDiscount))

\* line 297
TwFee(s, rawAmount) ==
    RMax(s.twMinFee, RFloor(RMul(RMul(rawAmount, s.twFeeRate), s.twDiscount)))

\* the domestic tax without Math.floor
TwTax_Unfloored(s, type, rawAmount, isETF) ==
    IF type = "sell"
    THEN RMul(rawAmount, IF isETF THEN s.twTaxRateETF ELSE s.twTaxRateStock)
    ELSE Zero

\* line 298
TwTax(s, type, rawAmount, isETF) ==
    IF type = "sell"
    THEN RFloor(RMul(rawAmount, IF isETF THEN s.twTaxRateETF ELSE s.twTaxRateStock))
    ELSE Zero

\* line 300, floored as the domestic fee is
UsFee_Floored(s, rawAmount) ==
    RMax(s.usMinFee, RFloor(RMul(rawAmount, s.usFeeRate)))

\* line 300
UsFee(s, rawAmount) == RMax(s.usMinFee, RMul(rawAmount, s.usFeeRate))

\* line 301
UsTax(s, type, rawAmount) ==
    IF type = "sell" THEN RMul(rawAmount, s.usTaxRate) ELSE Zero

calculateTransactionAmount(s, type, market, price, shares, isETF) ==
    LET rawAmount == RMul(price, shares)
        fee == IF market = "TW" THEN TwFee(s, rawAmount) ELSE UsFee(s, rawAmount)
        tax == IF market = "TW" THEN TwTax(s, type, rawAmount, isETF)
                                ELSE UsTax(s, type, rawAmount)
        total == IF type = "buy"
                 THEN RAdd(rawAmount, fee)
                 ELSE RSub(RSub(rawAmount, fee), tax)
    IN  [fee |-> fee, tax |-> tax, total |-> total]

-----------------------------------------------------------------------------
(* Dates.  A date text is what <input type="date"> delivers: "YYYY-MM-DD", *)
(* or the empty text when the field is cleared.                            *)

\* days from 1970-01-01 to the civil date y-m-d
DaysFromCivil(y, m, d) ==
    LET yy  == IF m <= 2 THEN y - 1 ELSE y
        era == yy \div 400
        yoe == yy - era * 400
        mp  == IF m > 2 THEN m - 3 ELSE m + 9
        doy == (153 * mp + 2) \div 5 + d - 1
        doe == yoe * 365 + yoe \div 4 - yoe \div 100 + doy
    IN  era * 146097 + doe - 719468

IsDateText(s) ==
    /\ Len(s) = 10
    /\ \A i \in {1, 2, 3, 4, 6, 7, 9, 10} : IsDigit(s[i])
    /\ s[5] = "-" /\ s[8] = "-"
    /\ DigitsValue(SubSeq(s, 6, 7)) \in 1..12
    /\ DigitsValue(SubSeq(s, 9, 10)) \in 1..31

\* new Date(text).getTime(), in days (the program's value is this number
\* times 86400000, the milliseconds of a day); NaN for an Invalid Date
GetTime(s) ==
    IF IsDateText(s)
    THEN Num(DaysFromCivil(DigitsValue(SubSeq(s, 1, 4)), DigitsValue(SubSeq(s, 6, 7)),
                           DigitsValue(SubSeq(s, 9, 10))))
    ELSE NaN

\* the comparator of line 155, (a, b) => getTime(a) - getTime(b); a NaN
\* result is read by Array.prototype.sort as +0
CompareDates(a, b) ==
    IF IsNaN(GetTime(a.date)) \/ IsNaN(GetTime(b.date)) THEN Zero
    ELSE RSub(GetTime(a.date), GetTime(b.date))

\* insert x after the last element of the sorted sequence q that does not
\* compare greater than x
RECURSIVE InsertStable(_, _)
InsertStable(q, x) ==
    IF q = <<>> THEN <<x>>
    ELSE IF RLe(CompareDates(q[Len(q)], x), Zero) THEN Append(q, x)
    ELSE Append(InsertStable(SubSeq(q, 1, Len(q) - 1), x), q[Len(q)])

\* a stable sort of q by CompareDates
RECURSIVE StableSort(_)
StableSort(q) ==
    IF q = <<>> THEN <<>>
    ELSE InsertStable(StableSort(SubSeq(q, 1, Len(q) - 1)), q[Len(q)])

\* CompareDates is a consistent comparator on q (equal to a and a equal to b
\* make equal to b) unless an Invalid Date, which compares equal to every
\* element, sits in q with two valid dates that differ
ConsistentComparator(q) ==
    LET times == { GetTime(q[i].date) : i \in 1..Len(q) }
    IN  NaN \notin times \/ Cardinality(times \ {NaN}) <= 1

Reorderings(q) ==
    { [i \in 1..Len(q) |-> q[f[i]]] :
        f \in { g \in [1..Len(q) -> 1..Len(q)] :
                  \A a, b \in 1..Len(q) : a # b => g[a] # g[b] } }

\* [...transactions].sort(comparator): the stable sort (ECMAScript 2019),
\* and with an inconsistent comparator an implementation-defined order
SortOutcomes(q) ==
    IF ConsistentComparator(q) THEN {StableSort(q)} ELSE Reorderings(q)

-----------------------------------------------------------------------------
(* The replay loop of the holdings / realizedGains memo.                   *)

\* the closing epsilon 0.000001 of line 208
Epsilon == Rat(1, 1000000)

\* Init Holdings (lines 159-168)
InitHolding(t) ==
    [ticker |-> t.ticker, name |-> t.name, market |-> t.market,
     shares |-> Zero, totalCost |-> Zero, isETF |-> t.isETF]

\* Init Realized (lines 171-184)
InitRealized(t) ==
    [ticker |-> t.ticker, name |-> t.name, market |-> t.market,
     currency |-> IF t.market = "TW" THEN "TWD" ELSE "USD",
     realizedPL |-> Zero, totalCost |-> Zero, totalRevenue |-> Zero,
     roi |-> Zero, tradeCount |-> 0, isETF |-> t.isETF]

\* the buy branch adding the gross amount, the fee left out of the cost
ApplyBuy_GrossOnly(h, t) ==
    [h EXCEPT !.totalCost = RAdd(h.totalCost, RMul(t.price, t.shares)),
              !.shares    = RAdd(h.shares, t.shares)]

\* the buy branch (lines 190-191)
ApplyBuy(h, t) ==
    [h EXCEPT !.totalCost = RAdd(h.totalCost, t.totalAmount),
              !.shares    = RAdd(h.shares, t.shares)]

\* the cost of the sold shares taken at the price of the trade
CostOfSoldShares_AtTradePrice(h, t) == RMul(t.price, t.shares)

\* const costOfSoldShares (lines 194-195)
CostOfSoldShares(h, t) == RMul(RDiv(h.totalCost, h.shares), t.shares)

\* the sell branch retiring the proceeds of the sale instead of its cost
ApplySellHolding_ByProceeds(h, t) ==
    IF RGt(h.shares, Zero)
    THEN [h EXCEPT !.totalCost = RSub(h.totalCost, t.totalAmount),
                   !.shares    = RSub(h.shares, t.shares)]
    ELSE h

\* the sell branch on the holding (lines 193-199)
ApplySellHolding(h, t) ==
    IF RGt(h.shares, Zero)
    THEN [h EXCEPT !.totalCost = RSub(h.totalCost, CostOfSoldShares(h, t)),
                   !.shares    = RSub(h.shares, t.shares)]
    ELSE h

\* the sell branch counting and crediting a sell outside the guard on h.shares
ApplySellRealized_Unguarded(h, r, t) ==
    IF RGt(h.shares, Zero)
    THEN [r EXCEPT !.realizedPL   = RAdd(r.realizedPL,
                                         RSub(t.totalAmount, CostOfSoldShares(h, t))),
                   !.totalCost    = RAdd(r.totalCost, CostOfSoldShares(h, t)),
                   !.totalRevenue = RAdd(r.totalRevenue, t.totalAmount),
                   !.tradeCount   = r.tradeCount + 1]
    ELSE [r EXCEPT !.realizedPL   = RAdd(r.realizedPL, t.totalAmount),
                   !.totalRevenue = RAdd(r.totalRevenue, t.totalAmount),
                   !.tradeCount   = r.tradeCount + 1]

\* the sell branch crediting the gross proceeds price * shares as revenue
ApplySellRealized_GrossRevenue(h, r, t) ==
    IF RGt(h.shares, Zero)
    THEN [r EXCEPT !.realizedPL   = RAdd(r.realizedPL,
                                         RSub(t.totalAmount, CostOfSoldShares(h, t))),
                   !.totalCost    = RAdd(r.totalCost, CostOfSoldShares(h, t)),
                   !.totalRevenue = RAdd(r.totalRevenue, RMul(t.price, t.shares)),
                   !.tradeCount   = r.tradeCount + 1]
    ELSE r

\* the sell branch on the realized item (lines 193-204); h is the holding
\* before the sell
ApplySellRealized(h, r, t) ==
    IF RGt(h.shares, Zero)
    THEN [r EXCEPT !.realizedPL   = RAdd(r.realizedPL,
                                         RSub(t.totalAmount, CostOfSoldShares(h, t))),
                   !.totalCost    = RAdd(r.totalCost, CostOfSoldShares(h, t)),
                   !.totalRevenue = RAdd(r.totalRevenue, t.totalAmount),
                   !.tradeCount   = r.tradeCount + 1]
    ELSE r

\* a normalisation that resets only a share count within epsilon of zero
Normalize_NearZeroOnly(h) ==
    IF RLe(h.shares, Epsilon) /\ RGe(h.shares, RNeg(Epsilon))
    THEN [h EXCEPT !.shares = Zero, !.totalCost = Zero]
    ELSE h

\* the normalisation that ends every iteration (lines 208-211)
Normalize(h) ==
    IF RLe(h.shares, Epsilon)
    THEN [h EXCEPT !.shares = Zero, !.totalCost = Zero]
    ELSE h

\* tempHoldings after one iteration of the forEach body on t (lines 158-211)
HoldingsAfter(H, t) ==
    LET h == IF t.ticker \in DOMAIN H THEN H[t.ticker] ELSE InitHolding(t)
        u == IF t.type = "buy" THEN ApplyBuy(h, t) ELSE ApplySellHolding(h, t)
    IN  [k \in DOMAIN H \cup {t.ticker} |->
            IF k = t.ticker THEN Normalize(u) ELSE H[k]]

\* the forEach body seeding the realized item anew whenever the position is closed
RealizedAfter_ReseededOnReopen(H, R, t) ==
    LET h == IF t.ticker \in DOMAIN H THEN H[t.ticker] ELSE InitHolding(t)
        r == IF t.ticker \in DOMAIN R /\ RGt(h.shares, Zero)
             THEN R[t.ticker] ELSE InitRealized(t)
    IN  [k \in DOMAIN R \cup {t.ticker} |->
            IF k = t.ticker
            THEN IF t.type = "buy" THEN r ELSE ApplySellRealized(h, r, t)
            ELSE R[k]]

\* tempRealized after one iteration of the forEach body on t (lines 158-211)
RealizedAfter(H, R, t) ==
    LET h == IF t.ticker \in DOMAIN H THEN H[t.ticker] ELSE InitHolding(t)
        r == IF t.ticker \in DOMAIN R THEN R[t.ticker] ELSE InitRealized(t)
    IN  [k \in DOMAIN R \cup {t.ticker} |->
            IF k = t.ticker
            THEN IF t.type = "buy" THEN r ELSE ApplySellRealized(h, r, t)
            ELSE R[k]]

\* the filter of line 215 letting closed positions through
VisibleTickers_All(H) == DOMAIN H

\* .filter(h => h.shares > 0) of line 215: the tickers that stay visible
VisibleTickers(H) == { x \in DOMAIN H : RGt(H[x].shares, Zero) }

\* the visible holdings with the estimated sell fee added to the average cost
finalHoldings_FeeInAvgCost(H, prices, s) ==
    { LET h == H[k]
          currentPrice == IF k \in DOMAIN prices /\ prices[k] # Zero
                          THEN prices[k] ELSE Zero
          avgCost == IF RGt(h.shares, Zero) THEN RDiv(h.totalCost, h.shares) ELSE Zero
          gross == RMul(currentPrice, h.shares)
          estSellFee ==
              IF h.market = "TW"
              THEN RMax(s.twMinFee,
                        RFloor(RMul(RMul(gross, s.twFeeRate), s.twDiscount)))
              ELSE RMax(s.usMinFee, RMul(gross, s.usFeeRate))
          estSellTax ==
              IF h.market = "TW"
              THEN RFloor(RMul(gross, IF h.isETF THEN s.twTaxRateETF
                                                 ELSE s.twTaxRateStock))
              ELSE RMul(gross, s.usTaxRate)
          marketValue == RSub(RSub(gross, estSellFee), estSellTax)
          unrealizedPL == RSub(marketValue, h.totalCost)
          roi == IF RGt(h.totalCost, Zero)
                 THEN RMul(RDiv(unrealizedPL, h.totalCost), Num(100)) ELSE Zero
      IN  [ticker |-> h.ticker, name |-> h.name, market |-> h.market,
           shares |-> h.shares, totalCost |-> h.totalCost, isETF |-> h.isETF,
           currency |-> IF h.market = "TW" THEN "TWD" ELSE "USD",
           avgCost |-> RAdd(avgCost, RDiv(estSellFee, h.shares)), marketValue |-> marketValue,
           unrealizedPL |-> unrealizedPL, roi |-> roi]
      : k \in VisibleTickers(H) }

\* the visible holdings (lines 214-243), as a set
finalHoldings(H, prices, s) ==
    { LET h == H[k]
          currentPrice == IF k \in DOMAIN prices /\ prices[k] # Zero
                          THEN prices[k] ELSE Zero
          avgCost == IF RGt(h.shares, Zero) THEN RDiv(h.totalCost, h.shares) ELSE Zero
          gross == RMul(currentPrice, h.shares)
          estSellFee ==
              IF h.market = "TW"
              THEN RMax(s.twMinFee,
                        RFloor(RMul(RMul(gross, s.twFeeRate), s.twDiscount)))
              ELSE RMax(s.usMinFee, RMul(gross, s.usFeeRate))
          estSellTax ==
              IF h.market = "TW"
              THEN RFloor(RMul(gross, IF h.isETF THEN s.twTaxRateETF
                                                 ELSE s.twTaxRateStock))
              ELSE RMul(gross, s.usTaxRate)
          marketValue == RSub(RSub(gross, estSellFee), estSellTax)
          unrealizedPL == RSub(marketValue, h.totalCost)
          roi == IF RGt(h.totalCost, Zero)
                 THEN RMul(RDiv(unrealizedPL, h.totalCost), Num(100)) ELSE Zero
      IN  [ticker |-> h.ticker, name |-> h.name, market |-> h.market,
           shares |-> h.shares, totalCost |-> h.totalCost, isETF |-> h.isETF,
           currency |-> IF h.market = "TW" THEN "TWD" ELSE "USD",
           avgCost |-> avgCost, marketValue |-> marketValue,
           unrealizedPL |-> unrealizedPL, roi |-> roi]
      : k \in VisibleTickers(H) }

\* the realized items without the filter of line 246
finalRealized_Unfiltered(R) ==
    { [R[k] EXCEPT !.roi = IF RGt(R[k].totalCost, Zero)
                           THEN RMul(RDiv(R[k].realizedPL, R[k].totalCost), Num(100))
                           ELSE Zero]
      : k \in DOMAIN R }

\* the realized items with roi computed by the division alone
finalRealized_Unguarded(R) ==
    { [R[k] EXCEPT !.roi = RMul(RDiv(R[k].realizedPL, R[k].totalCost), Num(100))]
      : k \in { x \in DOMAIN R : R[x].tradeCount > 0 } }

\* the visible realized items (lines 245-250), as a set
finalRealized(R) ==
    { [R[k] EXCEPT !.roi = IF RGt(R[k].totalCost, Zero)
                           THEN RMul(RDiv(R[k].realizedPL, R[k].totalCost), Num(100))
                           ELSE Zero]
      : k \in { x \in DOMAIN R : R[x].tradeCount > 0 } }

-----------------------------------------------------------------------------
(* The add-transaction form and its handler.                               *)

\* Number.prototype.toString of a natural number
RECURSIVE ToDigits(_)
ToDigits(n) ==
    LET c == CHOOSE x \in {"0","1","2","3","4","5","6","7","8","9"} :
                 DigitValue(x) = n % 10
    IN  IF n < 10 THEN <<c>> ELSE Append(ToDigits(n \div 10), c)

\* if (!form.ticker || !form.price || !form.shares) return;  (line 314)
Rejected(form) == form.ticker = <<>> \/ form.price = <<>> \/ form.shares = <<>>

\* const newTrans (lines 315-332); now is the reading of Date.now()
NewTrans(form, s, now) ==
    LET priceNum  == ParseFloat(form.price)
        sharesNum == ParseFloat(form.shares)
        amt == calculateTransactionAmount(s, form.type, form.market,
                                          priceNum, sharesNum, form.isETF)
    IN  [id |-> ToDigits(now),
         date |-> form.date,
         ticker |-> ToUpperCase(form.ticker),
         name |-> IF form.name # <<>> THEN form.name ELSE ToUpperCase(form.ticker),
         type |-> form.type,
         market |-> form.market,
         price |-> priceNum,
         shares |-> sharesNum,
         isETF |-> form.isETF,
         fee |-> amt.fee,
         tax |-> amt.tax,
         totalAmount |-> amt.total]

\* setManualPrices without the test of the trade's side
PricesAfterAdd_AnyType(prices, t) ==
    [k \in DOMAIN prices \cup {t.ticker} |->
        IF k = t.ticker THEN t.price ELSE prices[k]]

\* setManualPrices of lines 335-337
PricesAfterAdd(prices, t) ==
    IF t.type = "buy"
    THEN [k \in DOMAIN prices \cup {t.ticker} |->
             IF k = t.ticker THEN t.price ELSE prices[k]]
    ELSE prices

-----------------------------------------------------------------------------
(* The item the save effect writes and the load effect reads.  A JSON      *)
(* document is modelled by its structure, each number in it by the text    *)
(* JSON.stringify writes for it.                                           *)

MaxDecimals == 9

\* the digits of n, padded with zeros on the left to k digits
RECURSIVE PadDigits(_, _)
PadDigits(n, k) ==
    IF k = 0 THEN <<>> ELSE Append(PadDigits(n \div 10, k - 1), ToDigits(n % 10)[1])

\* the number of decimals of a fraction of denominator d: the least k from
\* which on 10^k is a multiple of d, p being 10^k
RECURSIVE DecimalsOf(_, _, _)
DecimalsOf(d, p, k) ==
    IF p % d = 0 \/ k = MaxDecimals THEN k ELSE DecimalsOf(d, 10 * p, k + 1)

\* JSON.stringify of a number: null for NaN and the infinities, else the
\* shortest decimal notation (the values written here are decimal fractions
\* not below 1e-6 in magnitude, which are written without an exponent)
NumberToJson(a) ==
    IF a[2] = 0 THEN <<"n","u","l","l">>
    ELSE LET k == DecimalsOf(a[2], 1, 0)
             p == Pow10(k)
             scaled == Abs(a[1]) * (p \div a[2])
             whole == ToDigits(scaled \div p)
             frac == IF k = 0 THEN <<>> ELSE <<".">> \o PadDigits(scaled % p, k)
         IN  (IF a[1] < 0 THEN <<"-">> ELSE <<>>) \o whole \o frac

\* JSON.parse of a number token; null is read as null, which the arithmetic
\* of the program takes as 0
JsonToNumber(text) ==
    IF text = <<"n","u","l","l">> THEN Zero ELSE ParseFloat(text)

\* JSON.stringify(dataToSave) (line 138); visualSettings is not modelled
Stringify(t, s, p) ==
    [transactions |-> [i \in 1..Len(t) |->
                          [t[i] EXCEPT !.price       = NumberToJson(t[i].price),
                                       !.shares      = NumberToJson(t[i].shares),
                                       !.fee         = NumberToJson(t[i].fee),
                                       !.tax         = NumberToJson(t[i].tax),
                                       !.totalAmount = NumberToJson(t[i].totalAmount)]],
     settings     |-> [f \in DOMAIN s |-> NumberToJson(s[f])],
     manualPrices |-> [k \in DOMAIN p |-> NumberToJson(p[k])]]

\* JSON.parse(savedData) (line 121)
JsonParse(doc) ==
    [transactions |-> [i \in 1..Len(doc.transactions) |->
                          LET t == doc.transactions[i]
                          IN  [t EXCEPT !.price       = JsonToNumber(t.price),
                                        !.shares      = JsonToNumber(t.shares),
                                        !.fee         = JsonToNumber(t.fee),
                                        !.tax         = JsonToNumber(t.tax),
                                        !.totalAmount = JsonToNumber(t.totalAmount)]],
     settings     |-> [f \in DOMAIN doc.settings |-> JsonToNumber(doc.settings[f])],
     manualPrices |-> [k \in DOMAIN doc.manualPrices |->
                          JsonToNumber(doc.manualPrices[k])]]

\* the state the load effect sets from the item (lines 121-128): the
\* transactions with a missing market filled in, the stored settings spread
\* over the defaults, the stored prices
LoadedState(doc) ==
    LET parsed == JsonParse(doc)
    IN  [transactions |-> [i \in 1..Len(parsed.transactions) |->
                              LET t == parsed.transactions[i]
                              IN  [t EXCEPT !.market = IF t.market = "" THEN "TW"
                                                       ELSE t.market]],
         settings     |-> [f \in DOMAIN DEFAULT_SETTINGS \cup DOMAIN parsed.settings |->
                              IF f \in DOMAIN parsed.settings THEN parsed.settings[f]
                              ELSE DEFAULT_SETTINGS[f]],
         manualPrices |-> parsed.manualPrices]

\* the save effect (lines 136-139), run after the render of a changed state:
\* it writes the state of that render
SaveEffect == localStorage' = <<Stringify(transactions', settings', manualPrices')>>

\* the page is open, its mount is over and its state is saved
Mounted ==
    /\ localStorage = <<Stringify(transactions, settings, manualPrices)>>
    /\ queued = <<>>
    /\ mount = "mounted"
    /\ persisted = <<>>

\* a state change re-renders: the memo's locals of the previous render are gone
Invalidate ==
    /\ pc' = "idle"
    /\ sortedTrans' = <<>>
    /\ idx' = 0
    /\ tempHoldings' = <<>>
    /\ tempRealized' = <<>>

\* handleAddTransaction (lines 313-340) on the form, with Date.now() = now
handleAddTransaction(form, now) ==
    /\ pc # "replay"
    /\ IF Rejected(form)
       THEN UNCHANGED vars
       ELSE /\ clock' = now
            /\ transactions' = Append(transactions, NewTrans(form, settings, now))
            /\ manualPrices' = PricesAfterAdd(manualPrices, NewTrans(form, settings, now))
            /\ Invalidate
            /\ UNCHANGED <<settings, inputs, cIn, cOut, queued, mount, persisted>>
            /\ SaveEffect

-----------------------------------------------------------------------------
(* The memo of lines 143-254, one forEach iteration per step.              *)

\* line 155 without the copy [...transactions]: the sort reorders the log
BeginReplay_SortInPlace ==
    /\ pc = "idle"
    /\ pc' = "replay"
    /\ transactions' \in SortOutcomes(transactions)
    /\ sortedTrans' = transactions'
    /\ idx' = 0
    /\ tempHoldings' = <<>>
    /\ tempRealized' = <<>>
    /\ UNCHANGED <<settings, manualPrices, clock, inputs, cIn, cOut,
                   localStorage, queued, mount, persisted>>

\* lines 144-155: fresh accumulators and the sorted copy of the log
BeginReplay ==
    /\ pc = "idle"
    /\ pc' = "replay"
    /\ sortedTrans' \in SortOutcomes(transactions)
    /\ idx' = 0
    /\ tempHoldings' = <<>>
    /\ tempRealized' = <<>>
    /\ UNCHANGED <<transactions, settings, manualPrices, clock, inputs, cIn, cOut,
                   localStorage, queued, mount, persisted>>

\* lines 157-212: the forEach body on the next element of sortedTrans
ReplayStep ==
    /\ pc = "replay"
    /\ idx < Len(sortedTrans)
    /\ tempHoldings' = HoldingsAfter(tempHoldings, sortedTrans[idx + 1])
    /\ tempRealized' = RealizedAfter(tempHoldings, tempRealized, sortedTrans[idx + 1])
    /\ idx' = idx + 1
    /\ UNCHANGED <<transactions, settings, manualPrices, pc, sortedTrans, clock,
                   inputs, cIn, cOut,
                   localStorage, queued, mount, persisted>>

\* lines 214-252: the loop is over; holdings and realizedGains are
\* finalHoldings(tempHoldings, ..) and finalRealized(tempRealized)
FinishReplay ==
    /\ pc = "replay"
    /\ idx = Len(sortedTrans)
    /\ pc' = "done"
    /\ UNCHANGED <<transactions, settings, manualPrices, sortedTrans, idx,
                   tempHoldings, tempRealized, clock, inputs, cIn, cOut,
                   localStorage, queued, mount, persisted>>

holdings == finalHoldings(tempHoldings, manualPrices, settings)
realizedGains == finalRealized(tempRealized)

-----------------------------------------------------------------------------
(* Inputs of the replay runs.                                              *)

MaxLog == 4

D1 == <<"2","0","2","4","-","0","1","-","0","1">>
D2 == <<"2","0","2","4","-","0","1","-","0","2">>

Form(date, ticker, type, market, price, shares, isETF) ==
    [date |-> date, ticker |-> ticker, name |-> <<>>, type |-> type,
     market |-> market, price |-> price, shares |-> shares, isETF |-> isETF]

\* the settings after usFeeRate and usTaxRate were set to 0 on the settings
\* tab (lines 795, 803): a US trade settles at its gross amount
NoUsFeeSettings ==
    [DEFAULT_SETTINGS EXCEPT !.usFeeRate = ParseFloat(<<"0">>),
                             !.usTaxRate = ParseFloat(<<"0">>)]

\* US round trips of one ticker, all on one day
FormsRoundTrip ==
    { Form(D1, <<"A">>, "buy",  "US", <<"1","0","0">>, <<"1","0">>, FALSE),
      Form(D1, <<"A">>, "sell", "US", <<"1","2","0">>, <<"1","0">>, FALSE),
      Form(D1, <<"A">>, "buy",  "US", <<"9","0">>,     <<"1","0">>, FALSE),
      Form(D1, <<"A">>, "sell", "US", <<"8","0">>,     <<"1","0">>, FALSE) }

\* US buys of a hundred shares each
FormsAverage ==
    { Form(D1, <<"A">>, "buy",  "US", <<"1","0","1">>, <<"1","0","0">>, FALSE),
      Form(D1, <<"A">>, "buy",  "US", <<"9","9">>,     <<"1","0","0">>, FALSE) }

\* domestic buys and sells of one ticker: exact, partial and oversized sells
FormsSells ==
    { Form(D1, <<"A">>, "buy",  "TW", <<"1","0","0">>, <<"1","0">>, FALSE),
      Form(D2, <<"A">>, "buy",  "TW", <<"9","0">>,     <<"1","0">>, FALSE),
      Form(D2, <<"A">>, "sell", "TW", <<"1","2","0">>, <<"1","0">>, FALSE),
      Form(D2, <<"A">>, "sell", "TW", <<"1","1","0">>, <<"5">>,     FALSE),
      Form(D1, <<"A">>, "sell", "TW", <<"1","2","0">>, <<"2","5">>, FALSE) }

\* a domestic sell whose minimum fee exceeds its gross amount
FormsCheapSell ==
    { Form(D1, <<"A">>, "buy",  "TW", <<"1","0","0">>, <<"1","0">>, FALSE),
      Form(D2, <<"A">>, "sell", "TW", <<"1">>,         <<"1">>,     FALSE) }

\* a sell that leaves no more than the closing epsilon
FormsResidue ==
    { Form(D1, <<"A">>, "buy",  "TW", <<"1","0","0">>, <<"1","0">>, FALSE),
      Form(D2, <<"A">>, "sell", "TW", <<"1","0","0">>,
           <<"9",".","9","9","9","9","9","9">>, FALSE),
      Form(D2, <<"A">>, "sell", "TW", <<"1","1","0">>, <<"5">>, FALSE) }

\* buys only, one of them for no more than the closing epsilon
FormsBuys ==
    { Form(D1, <<"A">>, "buy", "US", <<"1","0","0">>,
           <<"0",".","0","0","0","0","0","1">>, FALSE),
      Form(D1, <<"A">>, "buy", "US", <<"1","0","0">>, <<"1">>, FALSE),
      Form(D2, <<"A">>, "buy", "US", <<"9","0">>,     <<"1">>, FALSE) }

\* what the form lets through or holds back: a negative or zero price, a
\* negative share count; an empty ticker, price or share count
FormsUnchecked ==
    { Form(D1, <<"A">>, "buy",  "US", <<"-","5">>,     <<"1","0">>, FALSE),
      Form(D2, <<"A">>, "buy",  "TW", <<"0">>,         <<"1","0">>, FALSE),
      Form(D1, <<"A">>, "buy",  "TW", <<"1","0","0">>, <<"-","5">>, FALSE),
      Form(D1, <<"A">>, "sell", "TW", <<"1","2","0">>, <<"5">>,     FALSE),
      Form(D1, <<>>,    "buy",  "TW", <<"1","0","0">>, <<"1","0">>, FALSE),
      Form(D1, <<"A">>, "buy",  "TW", <<>>,            <<"1","0">>, FALSE),
      Form(D1, <<"A">>, "buy",  "TW", <<"1","0","0">>, <<>>,        FALSE) }

\* dated forms and one whose date field was cleared
FormsDates ==
    { Form(D2,   <<"A">>, "buy",  "TW", <<"1","0","0">>, <<"1","0">>, FALSE),
      Form(<<>>, <<"A">>, "buy",  "TW", <<"9","0">>,     <<"1","0">>, FALSE),
      Form(D1,   <<"A">>, "sell", "TW", <<"1","2","0">>, <<"5">>,     FALSE) }

ReplayScenarios ==
    { [settings |-> NoUsFeeSettings,  forms |-> FormsRoundTrip],
      [settings |-> NoUsFeeSettings,  forms |-> FormsAverage],
      [settings |-> DEFAULT_SETTINGS, forms |-> FormsSells],
      [settings |-> DEFAULT_SETTINGS, forms |-> FormsCheapSell],
      [settings |-> DEFAULT_SETTINGS, forms |-> FormsResidue],
      [settings |-> NoUsFeeSettings,  forms |-> FormsBuys],
      [settings |-> DEFAULT_SETTINGS, forms |-> FormsUnchecked],
      [settings |-> DEFAULT_SETTINGS, forms |-> FormsDates] }

\* the state after mount, with the settings of the scenario loaded (line 127)
InitReplay ==
    /\ \E sc \in ReplayScenarios : settings = sc.settings /\ inputs = sc.forms
    /\ transactions = <<>>
    /\ manualPrices = <<>>
    /\ pc = "idle"
    /\ sortedTrans = <<>>
    /\ idx = 0
    /\ tempHoldings = <<>>
    /\ tempRealized = <<>>
    /\ clock = 0
    /\ cIn = <<>>
    /\ cOut = <<>>
    /\ Mounted

\* the user submits one of the run's forms, a millisecond after the last
SubmitForm ==
    /\ Len(transactions) < MaxLog
    /\ \E f \in inputs : handleAddTransaction(f, clock + 1)

NextReplay == SubmitForm \/ BeginReplay \/ ReplayStep \/ FinishReplay

SpecReplay == InitReplay /\ [][NextReplay]_vars

-----------------------------------------------------------------------------
(* Calls of the calculator on their own.                                   *)

CalcPrices ==
    { ParseFloat(<<"1","0","0">>), ParseFloat(<<"1","5","0",".","5">>),
      ParseFloat(<<"1">>), ParseFloat(<<"-","5">>) }

CalcShares ==
    { ParseFloat(<<"1","0">>), ParseFloat(<<"1","0","0","0">>),
      ParseFloat(<<"0",".","5">>) }

\* the defaults, no broker discount (line 778), a US minimum fee (line 799)
CalcSettings ==
    { DEFAULT_SETTINGS,
      [DEFAULT_SETTINGS EXCEPT !.twDiscount = ParseFloat(<<"1">>)],
      [DEFAULT_SETTINGS EXCEPT !.usMinFee = ParseFloat(<<"2">>)] }

InitCalc ==
    /\ \E a \in [type : {"buy", "sell"}, market : {"TW", "US"}, price : CalcPrices,
                 shares : CalcShares, isETF : BOOLEAN] : cIn = <<a>>
    /\ settings \in CalcSettings
    /\ cOut = <<>>
    /\ transactions = <<>>
    /\ manualPrices = <<>>
    /\ pc = "idle"
    /\ sortedTrans = <<>>
    /\ idx = 0
    /\ tempHoldings = <<>>
    /\ tempRealized = <<>>
    /\ clock = 0
    /\ inputs = {}
    /\ Mounted

\* one call of calculateTransactionAmount (lines 291-311)
Calculate ==
    /\ cIn # <<>>
    /\ cOut = <<>>
    /\ cOut' = <<calculateTransactionAmount(settings, cIn[1].type, cIn[1].market,
                                            cIn[1].price, cIn[1].shares, cIn[1].isETF)>>
    /\ UNCHANGED <<transactions, settings, manualPrices, pc, sortedTrans, idx,
                   tempHoldings, tempRealized, clock, inputs, cIn,
                   localStorage, queued, mount, persisted>>

NextCalc == Calculate

SpecCalc == InitCalc /\ [][NextCalc]_vars

-----------------------------------------------------------------------------
(* The other handlers that change the log, the price map and the settings, *)
(* and the runs that use them.  A handler runs on what the last render     *)
(* shows, so after the memo has run (pc = "done").                         *)

\* confirmDelete (lines 342-347) with deleteTargetId = id
confirmDelete(id) ==
    /\ pc = "done"
    /\ transactions' = SelectSeq(transactions, LAMBDA t : t.id # id)
    /\ Invalidate
    /\ UNCHANGED <<settings, manualPrices, clock, inputs, cIn, cOut, queued, mount, persisted>>
    /\ SaveEffect

\* confirmDeleteTicker without the delete of lines 352-356
confirmDeleteTicker_KeepPrice(k) ==
    /\ pc = "done"
    /\ transactions' = SelectSeq(transactions, LAMBDA t : t.ticker # k)
    /\ Invalidate
    /\ UNCHANGED <<settings, manualPrices, clock, inputs, cIn, cOut, queued, mount, persisted>>
    /\ SaveEffect

\* confirmDeleteTicker (lines 350-360) with deleteTargetTicker = k
confirmDeleteTicker(k) ==
    /\ pc = "done"
    /\ transactions' = SelectSeq(transactions, LAMBDA t : t.ticker # k)
    /\ manualPrices' = [x \in DOMAIN manualPrices \ {k} |-> manualPrices[x]]
    /\ Invalidate
    /\ UNCHANGED <<settings, clock, inputs, cIn, cOut, queued, mount, persisted>>
    /\ SaveEffect

\* updatePrice (lines 362-367)
updatePrice(ticker, newPrice) ==
    /\ pc = "done"
    /\ LET price == ParseFloat(newPrice)
       IN  IF ~IsNaN(price)
           THEN /\ manualPrices' = [x \in DOMAIN manualPrices \cup {ticker} |->
                                       IF x = ticker THEN price ELSE manualPrices[x]]
                /\ Invalidate
                /\ UNCHANGED <<transactions, settings, clock, inputs, cIn, cOut, queued, mount, persisted>>
                /\ SaveEffect
           ELSE UNCHANGED vars

\* onChange of the twDiscount input (line 778)
setTwDiscount(value) ==
    /\ pc = "done"
    /\ settings' = [settings EXCEPT !.twDiscount = ParseFloat(value)]
    /\ Invalidate
    /\ UNCHANGED <<transactions, manualPrices, clock, inputs, cIn, cOut, queued, mount, persisted>>
    /\ SaveEffect

\* onClick of the reset button (line 809)
resetSettings ==
    /\ pc = "done"
    /\ settings' = DEFAULT_SETTINGS
    /\ Invalidate
    /\ UNCHANGED <<transactions, manualPrices, clock, inputs, cIn, cOut, queued, mount, persisted>>
    /\ SaveEffect

MaxEditLog == 2
MaxClock == 1

\* a domestic ticker whose fees depend on the discount, and a foreign ticker
\* bought at price 0 and sold at a negative price
FormsEdit ==
    { Form(D1, <<"a">>, "buy",  "TW", <<"1","0","0","0">>, <<"1","0","0">>, FALSE),
      Form(D2, <<"a">>, "sell", "TW", <<"1","2","0","0">>, <<"1","0","0">>, FALSE),
      Form(D1, <<"b">>, "buy",  "US", <<"0">>,             <<"2">>,         FALSE),
      Form(D2, <<"b">>, "sell", "US", <<"-","5">>,         <<"2">>,         FALSE) }

\* what the user types into the price input of a holding (line 587)
PriceTexts == { <<"1","1","0","1">>, <<>> }

\* what the user types into the twDiscount input
DiscountTexts == { <<"1">> }

InitEdit ==
    /\ inputs = FormsEdit
    /\ settings = DEFAULT_SETTINGS
    /\ transactions = <<>>
    /\ manualPrices = <<>>
    /\ pc = "idle"
    /\ sortedTrans = <<>>
    /\ idx = 0
    /\ tempHoldings = <<>>
    /\ tempRealized = <<>>
    /\ clock = 0
    /\ cIn = <<>>
    /\ cOut = <<>>
    /\ Mounted

\* the add button; Date.now() is the wall clock in milliseconds, and two
\* readings of it can be equal
AddTransaction ==
    /\ pc = "done"
    /\ Len(transactions) < MaxEditLog
    /\ \E f \in inputs, now \in {clock, clock + 1} :
          now <= MaxClock /\ handleAddTransaction(f, now)

\* the trash button of a row of the transaction list (line 746), confirmed
DeleteTransaction ==
    \E i \in 1..Len(transactions) : confirmDelete(transactions[i].id)

\* the trash button of a holding (line 605), confirmed
DeleteTicker == \E h \in holdings : confirmDeleteTicker(h.ticker)

\* the price input of a holding (line 591)
EditPrice == \E h \in holdings, x \in PriceTexts : updatePrice(h.ticker, x)

EditDiscount == \E x \in DiscountTexts : setTwDiscount(x)

NextEdit ==
    \/ AddTransaction
    \/ DeleteTransaction
    \/ DeleteTicker
    \/ EditPrice
    \/ EditDiscount
    \/ resetSettings
    \/ BeginReplay
    \/ ReplayStep
    \/ FinishReplay

SpecEdit == InitEdit /\ [][NextEdit]_vars

-----------------------------------------------------------------------------
(* Opening the page: the effects of the mount, the render of what the load *)
(* effect has set, and closing and opening the page again.                 *)

\* the load effect (lines 117-134) reading the item only after the save
\* effect of the mount has written the initial state
LoadEffect_AfterSave ==
    /\ mount = "load"
    /\ pc = "done"
    /\ queued' = <<LoadedState(Stringify(transactions, settings, manualPrices))>>
    /\ mount' = "save"
    /\ UNCHANGED <<transactions, settings, manualPrices, pc, sortedTrans, idx,
                   tempHoldings, tempRealized, clock, inputs, cIn, cOut,
                   localStorage, persisted>>

\* the load effect (lines 117-134), the first effect of the mount: it runs
\* after the first render and sets the state it reads from the item, if there
\* is one; that state is rendered once the effects of the mount have run
LoadEffect ==
    /\ mount = "load"
    /\ pc = "done"
    /\ queued' = IF localStorage # <<>> THEN <<LoadedState(localStorage[1])>> ELSE <<>>
    /\ mount' = "save"
    /\ UNCHANGED <<transactions, settings, manualPrices, pc, sortedTrans, idx,
                   tempHoldings, tempRealized, clock, inputs, cIn, cOut,
                   localStorage, persisted>>

\* the save effect (lines 136-139) as the second effect of the mount: it
\* writes the state of the first render, the initial state
SaveOnMount ==
    /\ mount = "save"
    /\ mount' = IF queued = <<>> THEN "mounted" ELSE "render"
    /\ UNCHANGED <<transactions, settings, manualPrices, pc, sortedTrans, idx,
                   tempHoldings, tempRealized, clock, inputs, cIn, cOut,
                   queued, persisted>>
    /\ SaveEffect

\* the render of the state the load effect has set (lines 126-128), and the
\* save effect that follows it
RenderLoaded ==
    /\ mount = "render"
    /\ transactions' = queued[1].transactions
    /\ settings' = queued[1].settings
    /\ manualPrices' = queued[1].manualPrices
    /\ queued' = <<>>
    /\ mount' = "mounted"
    /\ Invalidate
    /\ UNCHANGED <<clock, inputs, cIn, cOut, persisted>>
    /\ SaveEffect

\* the page is closed and opened again: the component starts from the
\* initial values of its useState calls (lines 82-84), the item stays
Restart ==
    /\ mount = "mounted"
    /\ pc = "done"
    /\ persisted' = localStorage
    /\ transactions' = <<>>
    /\ settings' = DEFAULT_SETTINGS
    /\ manualPrices' = <<>>
    /\ queued' = <<>>
    /\ mount' = "load"
    /\ Invalidate
    /\ UNCHANGED <<clock, inputs, cIn, cOut, localStorage>>

\* a domestic buy at a fractional price, which sets the manual price, and a
\* foreign sell whose fee and tax have six decimals
FormsRestart ==
    { Form(D1, <<"a">>, "buy",  "TW", <<"1","0","0",".","5">>, <<"1","0">>, FALSE),
      Form(D2, <<"b">>, "sell", "US", <<"0",".","5">>,         <<"3">>,     FALSE) }

\* the first visit: nothing is stored, the component is about to mount
InitRestart ==
    /\ inputs = FormsRestart
    /\ settings = DEFAULT_SETTINGS
    /\ transactions = <<>>
    /\ manualPrices = <<>>
    /\ pc = "idle"
    /\ sortedTrans = <<>>
    /\ idx = 0
    /\ tempHoldings = <<>>
    /\ tempRealized = <<>>
    /\ clock = 0
    /\ cIn = <<>>
    /\ cOut = <<>>
    /\ localStorage = <<>>
    /\ queued = <<>>
    /\ mount = "load"
    /\ persisted = <<>>

\* the user edits during the first visit, once the page has mounted; the
\* later visits only open the page
FirstVisit == mount = "mounted" /\ persisted = <<>>

NextRestart ==
    \/ LoadEffect
    \/ SaveOnMount
    \/ RenderLoaded
    \/ Restart
    \/ FirstVisit /\ AddTransaction
    \/ FirstVisit /\ EditPrice
    \/ FirstVisit /\ EditDiscount
    \/ BeginReplay
    \/ ReplayStep
    \/ FinishReplay

SpecRestart == InitRestart /\ [][NextRestart]_vars

-----------------------------------------------------------------------------
(* Runs with two tickers, one of them entered with its date field cleared. *)

\* ticker A bought on the 2nd as a domestic stock and sold on the 1st as a
\* foreign one; ticker B bought with no date
FormsPartition ==
    { Form(D2,   <<"A">>, "buy",  "TW", <<"1","0","0">>, <<"1","0">>, FALSE),
      Form(D1,   <<"A">>, "sell", "US", <<"1","2","0">>, <<"5">>,     FALSE),
      Form(<<>>, <<"B">>, "buy",  "TW", <<"9","0">>,     <<"1","0">>, FALSE) }

InitPartition ==
    /\ inputs = FormsPartition
    /\ settings = DEFAULT_SETTINGS
    /\ transactions = <<>>
    /\ manualPrices = <<>>
    /\ pc = "idle"
    /\ sortedTrans = <<>>
    /\ idx = 0
    /\ tempHoldings = <<>>
    /\ tempRealized = <<>>
    /\ clock = 0
    /\ cIn = <<>>
    /\ cOut = <<>>
    /\ Mounted

SpecPartition == InitPartition /\ [][NextReplay]_vars

-----------------------------------------------------------------------------
(* Definitions the properties are stated with.                             *)

\* the replay has started: the accumulators are those of the memo
Replaying == pc \in {"replay", "done"}

\* the elements of sortedTrans the loop has processed
Processed == SubSeq(sortedTrans, 1, idx)

\* what the data model asks of a transaction: a positive price and share
\* count, a ticker
WellFormed(t) == RGt(t.price, Zero) /\ RGt(t.shares, Zero) /\ t.ticker # <<>>

AllWellFormed(q) == \A i \in 1..Len(q) : WellFormed(q[i])

\* the open position of ticker k in the accumulators H, zero before first sight
HeldShares(H, k) == IF k \in DOMAIN H THEN H[k].shares ELSE Zero
HeldCost(H, k) == IF k \in DOMAIN H THEN H[k].totalCost ELSE Zero

\* the accumulators after the loop has run over all of q
RECURSIVE HoldingsOf(_)
RECURSIVE RealizedOf(_)
HoldingsOf(q) ==
    IF q = <<>> THEN <<>>
    ELSE HoldingsAfter(HoldingsOf(SubSeq(q, 1, Len(q) - 1)), q[Len(q)])
RealizedOf(q) ==
    IF q = <<>> THEN <<>>
    ELSE RealizedAfter(HoldingsOf(SubSeq(q, 1, Len(q) - 1)),
                       RealizedOf(SubSeq(q, 1, Len(q) - 1)), q[Len(q)])

\* the transactions of ticker k in q, in order
RECURSIVE OfTicker(_, _)
OfTicker(q, k) ==
    IF q = <<>> THEN <<>>
    ELSE IF Head(q).ticker = k THEN <<Head(q)>> \o OfTicker(Tail(q), k)
    ELSE OfTicker(Tail(q), k)

\* the sums of the stored settlement amounts and of the share counts of q
RECURSIVE SumAmounts(_)
SumAmounts(q) == IF q = <<>> THEN Zero ELSE RAdd(Head(q).totalAmount, SumAmounts(Tail(q)))
RECURSIVE SumShares(_)
SumShares(q) == IF q = <<>> THEN Zero ELSE RAdd(Head(q).shares, SumShares(Tail(q)))

OnlyBuys(q) == \A i \in 1..Len(q) : q[i].type = "buy"

\* the share total of q stays above the closing epsilon after each element
StaysOpen(q) == \A n \in 1..Len(q) : RGt(SumShares(SubSeq(q, 1, n)), Epsilon)

\* the realized accumulator of ticker k in R, zero before first sight
RealizedCount(R, k) == IF k \in DOMAIN R THEN R[k].tradeCount ELSE 0
RealizedPL(R, k) == IF k \in DOMAIN R THEN R[k].realizedPL ELSE Zero
RealizedCost(R, k) == IF k \in DOMAIN R THEN R[k].totalCost ELSE Zero
RealizedRevenue(R, k) == IF k \in DOMAIN R THEN R[k].totalRevenue ELSE Zero

\* this step is one iteration of the replay loop
LoopStep == pc = "replay" /\ idx' = idx + 1

\* the cost a sell of `sold` shares retires from a position of `held` shares
\* and cost basis `cost`: the average cost times the shares sold
CostRetired(cost, held, sold) == RMul(sold, RDiv(cost, held))

\* the accumulators before the last processed transaction
HoldingsBefore == HoldingsOf(SubSeq(sortedTrans, 1, idx - 1))
RealizedBefore == RealizedOf(SubSeq(sortedTrans, 1, idx - 1))

\* the largest integer not above the rational a, found by search
FloorOf(a) ==
    CHOOSE n \in (a[1] \div a[2] - 2)..(a[1] \div a[2] + 2) :
        RLe(Num(n), a) /\ RLt(a, Num(n + 1))

(* C8: in the domestic (TW) regime the calculator returns                  *)
(* fee = max(minFee, floor(price*shares*feeRate*discount)), tax =          *)
(* floor(price*shares*(fund ? fundTaxRate : stockTaxRate)) for a sell and  *)
(* 0 for a buy, settlement = gross + fee for a buy and gross - fee - tax   *)
(* for a sell; price 100, shares 1000 under the defaults give fee 85.      *)
C8_DomesticAmounts ==
    (cOut # <<>> /\ cIn[1].market = "TW") =>
        LET a     == cIn[1]
            gross == RMul(a.shares, a.price)
            pct   == RMul(settings.twDiscount, settings.twFeeRate)
            whole == Num(FloorOf(RMul(gross, pct)))
            fee   == IF RLt(whole, settings.twMinFee) THEN settings.twMinFee ELSE whole
            rate  == IF a.isETF THEN settings.twTaxRateETF ELSE settings.twTaxRateStock
            tax   == IF a.type = "sell" THEN Num(FloorOf(RMul(gross, rate))) ELSE Zero
        IN  /\ cOut[1].fee = fee
            /\ cOut[1].tax = tax
            /\ a.type = "buy"  => cOut[1].total = RAdd(gross, fee)
            /\ a.type = "sell" => cOut[1].total = RSub(gross, RAdd(fee, tax))
            /\ (a.price = Num(100) /\ a.shares = Num(1000)
                    /\ settings = DEFAULT_SETTINGS) => cOut[1].fee = Num(85)

C8_Witness ==
    /\ cOut # <<>>
    /\ cIn[1].market = "TW" /\ cIn[1].type = "sell" /\ cIn[1].isETF
    /\ cIn[1].price = Num(100) /\ cIn[1].shares = Num(1000)
    /\ settings = DEFAULT_SETTINGS
    /\ cOut[1] = [fee |-> Num(85), tax |-> Num(100), total |-> Num(99815)]

(* C9: in the foreign (US) regime the calculator returns                   *)
(* fee = max(minFee, price*shares*feeRate) without flooring, tax =         *)
(* price*shares*saleLevyRate for a sell and 0 for a buy, settlement =      *)
(* gross + fee for a buy and gross - fee - tax for a sell, and the result  *)
(* is the same for either value of the fund-like flag.                     *)
C9_ForeignAmounts ==
    (cOut # <<>> /\ cIn[1].market = "US") =>
        LET a     == cIn[1]
            gross == RMul(a.shares, a.price)
            pct   == RMul(gross, settings.usFeeRate)
            fee   == IF RLt(pct, settings.usMinFee) THEN settings.usMinFee ELSE pct
            tax   == IF a.type = "sell" THEN RMul(settings.usTaxRate, gross) ELSE Zero
        IN  /\ cOut[1].fee = fee
            /\ cOut[1].tax = tax
            /\ a.type = "buy"  => cOut[1].total = RAdd(gross, fee)
            /\ a.type = "sell" => cOut[1].total = RSub(gross, RAdd(fee, tax))
            /\ cOut[1] = calculateTransactionAmount(settings, a.type, "US", a.price,
                                                    a.shares, ~a.isETF)

C9_Witness ==
    /\ cOut # <<>>
    /\ cIn[1].market = "US" /\ cIn[1].type = "sell" /\ cIn[1].isETF
    /\ cIn[1].price = Rat(1505, 10) /\ cIn[1].shares = Num(10)
    /\ settings = DEFAULT_SETTINGS
    /\ cOut[1].fee = Rat(1505, 1000)
    /\ cOut[1].tax = Rat(1204, 100000)

(* C1: after every step of the replay every ticker's open-position         *)
(* accumulator has shares >= 0 and totalCostBasis >= 0.                    *)
C1_NonNegativeInventory ==
    Replaying =>
        \A k \in DOMAIN tempHoldings :
            RGe(tempHoldings[k].shares, Zero) /\ RGe(tempHoldings[k].totalCost, Zero)

\* the same, for the logs whose transactions all have a positive price and
\* share count
C1_OnWellFormedLog == AllWellFormed(sortedTrans) => C1_NonNegativeInventory

(* C10: every transaction in the log, after any sequence of add requests,  *)
(* has price > 0, shares > 0 and a non-empty ticker (a request that lacks  *)
(* one of these is rejected and leaves the log unchanged).                 *)
C10_LogWellFormed == AllWellFormed(transactions)

\* a request with an empty ticker, price or share count leaves the log as it is
C10_EmptyFieldRejected ==
    [][\A f \in inputs :
          (Rejected(f) /\ handleAddTransaction(f, clock + 1))
              => transactions' = transactions]_vars

(* C2, as stated: for any sequence of buys of one ticker with no sells,    *)
(* totalCostBasis is the sum of the buys' settlement amounts and shares    *)
(* the sum of the buys' share counts.                                      *)
C2_BuysAddUp ==
    Replaying =>
        \A k \in DOMAIN tempHoldings :
            LET q == OfTicker(Processed, k)
            IN  (OnlyBuys(q) /\ AllWellFormed(q)) =>
                    /\ tempHoldings[k].totalCost = SumAmounts(q)
                    /\ tempHoldings[k].shares = SumShares(q)

(* C2, amended: for any sequence of buys of one ticker with no sells whose *)
(* running share total is above the closing epsilon 0.000001 after every   *)
(* buy, totalCostBasis is the sum of the settlement amounts, shares the    *)
(* sum of the share counts, and the reported avgCost their quotient;       *)
(* settlements 10,100 and 9,900 for 100 shares each give avgCost 100.      *)
C2_BuysAboveEpsilonAddUp ==
    Replaying =>
        \A k \in DOMAIN tempHoldings :
            LET q == OfTicker(Processed, k)
            IN  (OnlyBuys(q) /\ StaysOpen(q)) =>
                    /\ tempHoldings[k].totalCost = SumAmounts(q)
                    /\ tempHoldings[k].shares = SumShares(q)
                    /\ \E h \in holdings :
                          /\ h.ticker = k
                          /\ h.avgCost = RDiv(SumAmounts(q), SumShares(q))
                          /\ \A g \in holdings : g.ticker = k => g = h
                    /\ (Len(q) = 2 /\ {q[1].totalAmount, q[2].totalAmount}
                                         = {Num(10100), Num(9900)}
                                   /\ q[1].shares = Num(100) /\ q[2].shares = Num(100))
                           => \A h \in holdings : h.avgCost = Num(100)

C2_Witness ==
    /\ pc = "done"
    /\ Len(sortedTrans) = 2
    /\ OnlyBuys(sortedTrans)
    /\ sortedTrans[1].totalAmount = Num(10100) /\ sortedTrans[1].shares = Num(100)
    /\ sortedTrans[2].totalAmount = Num(9900) /\ sortedTrans[2].shares = Num(100)
    /\ \E h \in holdings :
          h.avgCost = Num(100) /\ h.totalCost = Num(20000) /\ h.shares = Num(200)

(* C3, as stated: for any sell applied during replay (shares > 0 before    *)
(* it), costRetired plus totalCostBasis after the sell is totalCostBasis   *)
(* before it, and realizedPL grows by the settlement amount less           *)
(* costRetired.                                                            *)
C3_SellPartition ==
    [][LET t == sortedTrans[idx + 1]
           k == t.ticker
       IN  (LoopStep /\ t.type = "sell" /\ RGt(HeldShares(tempHoldings, k), Zero)) =>
               LET c == CostRetired(tempHoldings[k].totalCost, tempHoldings[k].shares,
                                    t.shares)
               IN  /\ RAdd(c, tempHoldings'[k].totalCost) = tempHoldings[k].totalCost
                   /\ RSub(tempRealized'[k].realizedPL, RealizedPL(tempRealized, k))
                          = RSub(t.totalAmount, c)]_vars

(* C3, amended: for any applied sell realizedPL grows by the settlement    *)
(* amount less costRetired (average cost times the shares sold); and       *)
(* costRetired plus totalCostBasis after the sell is totalCostBasis before *)
(* it when the sell is for exactly the held quantity or leaves more than   *)
(* 0.000001 shares (an oversized sell, or one that leaves a residue of at  *)
(* most 0.000001, has its remaining cost basis set to 0 instead).          *)
C3_SellPartitionUnlessClamped ==
    [][LET t == sortedTrans[idx + 1]
           k == t.ticker
       IN  (LoopStep /\ t.type = "sell" /\ RGt(HeldShares(tempHoldings, k), Zero)) =>
               LET held == tempHoldings[k].shares
                   c == CostRetired(tempHoldings[k].totalCost, held, t.shares)
               IN  /\ (t.shares = held \/ RGt(RSub(held, t.shares), Epsilon))
                          => RAdd(c, tempHoldings'[k].totalCost)
                                 = tempHoldings[k].totalCost
                   /\ (~(t.shares = held \/ RGt(RSub(held, t.shares), Epsilon)))
                          => tempHoldings'[k].totalCost = Zero
                   /\ RSub(tempRealized'[k].realizedPL, RealizedPL(tempRealized, k))
                          = RSub(t.totalAmount, c)]_vars

\* a partial sell has just been applied
C3_Witness ==
    /\ pc = "replay" /\ idx >= 2
    /\ LET t == sortedTrans[idx]
           k == t.ticker
           held == HeldShares(HoldingsBefore, k)
       IN  /\ t.type = "sell"
           /\ RGt(held, Zero)
           /\ RGt(RSub(held, t.shares), Epsilon)
           /\ RGt(tempHoldings[k].totalCost, Zero)
           /\ RLt(tempHoldings[k].totalCost, HoldingsBefore[k].totalCost)
           /\ tempRealized[k].tradeCount = RealizedCount(RealizedBefore, k) + 1

(* C4: a sell replayed while its ticker has zero held shares is a no-op:   *)
(* shares and totalCostBasis stay 0, realizedPL, totalCostRetired,         *)
(* totalRevenue and tradeCount are unchanged, and the replay goes on.      *)
C4_SellOnEmptyIsNoOp ==
    [][LET t == sortedTrans[idx + 1]
           k == t.ticker
       IN  (LoopStep /\ t.type = "sell" /\ HeldShares(tempHoldings, k) = Zero) =>
               /\ HeldCost(tempHoldings, k) = Zero
               /\ tempHoldings'[k].shares = Zero
               /\ tempHoldings'[k].totalCost = Zero
               /\ tempRealized'[k].realizedPL = RealizedPL(tempRealized, k)
               /\ tempRealized'[k].totalCost = RealizedCost(tempRealized, k)
               /\ tempRealized'[k].totalRevenue = RealizedRevenue(tempRealized, k)
               /\ tempRealized'[k].tradeCount = RealizedCount(tempRealized, k)
               /\ pc' = "replay"
               /\ sortedTrans' = sortedTrans]_vars

\* a sell on a position closed by an earlier sell has just been dropped, and
\* the loop has gone on to apply a later buy
C4_Witness ==
    /\ Replaying /\ idx >= 4
    /\ LET q == SubSeq(sortedTrans, 1, idx - 1)
           t == sortedTrans[idx - 1]
           k == t.ticker
           before == HoldingsOf(SubSeq(sortedTrans, 1, idx - 2))
       IN  /\ t.type = "sell"
           /\ HeldShares(before, k) = Zero
           /\ RealizedCount(RealizedOf(q), k) = 1
           /\ sortedTrans[idx].type = "buy"
           /\ RGt(tempHoldings[k].shares, Zero)
           /\ tempRealized[k].tradeCount = 1

(* C5: selling exactly all held shares of a ticker drives its shares and   *)
(* totalCostBasis to exactly 0, and the ticker is not in the visible       *)
(* Holding set.                                                            *)
C5_ExactSellCloses ==
    [][LET t == sortedTrans[idx + 1]
           k == t.ticker
       IN  (LoopStep /\ t.type = "sell" /\ RGt(HeldShares(tempHoldings, k), Zero)
                     /\ t.shares = tempHoldings[k].shares) =>
               /\ tempHoldings'[k].shares = Zero
               /\ tempHoldings'[k].totalCost = Zero
               /\ \A h \in finalHoldings(tempHoldings', manualPrices', settings') :
                      h.ticker # k]_vars

\* the last transaction sold exactly what was held, and the memo returned
C5_Witness ==
    /\ pc = "done" /\ idx = Len(sortedTrans) /\ idx >= 2
    /\ LET t == sortedTrans[idx]
           k == t.ticker
       IN  /\ t.type = "sell"
           /\ RGt(HeldShares(HoldingsBefore, k), Zero)
           /\ t.shares = HoldingsBefore[k].shares
           /\ tempHoldings[k].shares = Zero
           /\ tempRealized[k].tradeCount >= 1
           /\ holdings = {}

\* the replayed log is the re-opening round trip: buy at cost 1,000, sell
\* for 1,200, buy at cost 900, sell for 800, ten shares each
IsReopenExample(q) ==
    /\ Len(q) = 4
    /\ \A i \in 1..4 : q[i].shares = Num(10) /\ q[i].ticker = q[1].ticker
    /\ <<q[1].type, q[2].type, q[3].type, q[4].type>> = <<"buy", "sell", "buy", "sell">>
    /\ <<q[1].totalAmount, q[2].totalAmount, q[3].totalAmount, q[4].totalAmount>>
           = <<Num(1000), Num(1200), Num(900), Num(800)>>

C7_ReplayInDateOrder ==
    Replaying =>
        \A i, j \in 1..Len(sortedTrans) :
            (i < j /\ ~IsNaN(GetTime(sortedTrans[i].date))
                   /\ ~IsNaN(GetTime(sortedTrans[j].date)))
                => RLe(GetTime(sortedTrans[i].date), GetTime(sortedTrans[j].date))

\* the position of the transaction with id x in the log
LogPosition(x) == CHOOSE n \in 1..Len(transactions) : transactions[n].id = x

\* the same for the logs whose dates are all valid, ties in insertion order
C7_OnDatedLog ==
    (Replaying /\ \A n \in 1..Len(transactions) : IsDateText(transactions[n].date)) =>
        /\ Len(sortedTrans) = Len(transactions)
        /\ \A n \in 1..Len(transactions) :
               \E i \in 1..Len(sortedTrans) : sortedTrans[i] = transactions[n]
        /\ \A i, j \in 1..Len(sortedTrans) :
               i < j =>
                   \/ RLt(GetTime(sortedTrans[i].date), GetTime(sortedTrans[j].date))
                   \/ /\ GetTime(sortedTrans[i].date) = GetTime(sortedTrans[j].date)
                      /\ LogPosition(sortedTrans[i].id) < LogPosition(sortedTrans[j].id)

\* the transactions of the log q, as a set
Range(q) == { q[i] : i \in 1..Len(q) }

(* C11: after any sequence of appends and deletes the transactions of the  *)
(* log have pairwise distinct ids.                                         *)
C11_UniqueIds ==
    \A i, j \in 1..Len(transactions) :
        i # j => transactions[i].id # transactions[j].id

\* delete-by-id keeps, in their order, the transactions that have another id
C11_DeleteKeepsOtherIds ==
    [][\A i \in 1..Len(transactions) :
          confirmDelete(transactions[i].id) =>
              /\ \A t \in Range(transactions) :
                     t.id # transactions[i].id => t \in Range(transactions')
              /\ \A t \in Range(transactions') :
                     t \in Range(transactions) /\ t.id # transactions[i].id]_vars

\* the tickers of the log q
TickersOf(q) == { q[i].ticker : i \in 1..Len(q) }

(* C12: delete-all-for-ticker removes every transaction of the ticker and  *)
(* the ticker's manual price, leaves the transactions and manual prices of *)
(* every other ticker as they are, and the ticker is in neither the        *)
(* holdings nor the realized items derived afterwards.                     *)
C12_DeleteTickerFrame ==
    /\ [][\A k \in TickersOf(transactions) \cup DOMAIN manualPrices :
             confirmDeleteTicker(k) =>
                 /\ OfTicker(transactions', k) = <<>>
                 /\ \A x \in TickersOf(transactions) \ {k} :
                        OfTicker(transactions', x) = OfTicker(transactions, x)
                 /\ Len(transactions') =
                        Len(transactions) - Len(OfTicker(transactions, k))
                 /\ DOMAIN manualPrices' = DOMAIN manualPrices \ {k}
                 /\ \A x \in DOMAIN manualPrices' :
                        manualPrices'[x] = manualPrices[x]]_vars
    /\ [](pc = "done" =>
             /\ \A h \in holdings : h.ticker \in TickersOf(transactions)
             /\ \A r \in realizedGains : r.ticker \in TickersOf(transactions))

\* ticker A was bought first and deleted whole; B, bought after it, is all
\* that is left in the log, the price map and the derived sets
C12_Witness ==
    /\ pc = "done"
    /\ Len(transactions) = 1
    /\ transactions[1].ticker = <<"B">> /\ transactions[1].type = "buy"
    /\ transactions[1].id = <<"1">>
    /\ DOMAIN manualPrices = {<<"B">>}
    /\ \A h \in holdings : h.ticker = <<"B">>
    /\ holdings # {}

\* this step is updatePrice or confirmDeleteTicker
SetsOrDeletesPrice ==
    \/ \E h \in holdings, x \in PriceTexts : updatePrice(h.ticker, x)
    \/ \E h \in holdings : confirmDeleteTicker(h.ticker)

\* this step appends a transaction to the log
Appends ==
    /\ Len(transactions') = Len(transactions) + 1
    /\ SubSeq(transactions', 1, Len(transactions)) = transactions

\* this step is confirmDelete
DeletesById == \E i \in 1..Len(transactions) : confirmDelete(transactions[i].id)

(* C13, as stated: a manual price changes only through set-price or        *)
(* delete-all-for-ticker; appending a transaction and deleting one by id   *)
(* leave every manual price entry unchanged.                               *)
C13_PricesOnlyByUser ==
    [][/\ manualPrices' # manualPrices => SetsOrDeletesPrice
       /\ (Appends \/ DeletesById) => manualPrices' = manualPrices]_vars

(* C13, amended: a manual price changes only through set-price,            *)
(* delete-all-for-ticker or the append of a buy, which sets the price of   *)
(* the bought ticker to the price of the buy and leaves every other entry  *)
(* unchanged; appending a sell and deleting a transaction by id leave      *)
(* every manual price entry unchanged.                                     *)
C13_PricesByUserOrBuy ==
    [][/\ manualPrices' # manualPrices =>
              (SetsOrDeletesPrice \/ (Appends /\ transactions'[Len(transactions')].type = "buy"))
       /\ Appends =>
              LET t == transactions'[Len(transactions')]
              IN  IF t.type = "buy"
                  THEN /\ DOMAIN manualPrices' = DOMAIN manualPrices \cup {t.ticker}
                       /\ manualPrices'[t.ticker] = t.price
                       /\ \A x \in DOMAIN manualPrices \ {t.ticker} :
                              manualPrices'[x] = manualPrices[x]
                  ELSE manualPrices' = manualPrices
       /\ DeletesById => manualPrices' = manualPrices]_vars

\* a second buy of a ticker has just been appended: the ticker's manual
\* price is the price of that buy
C13_Witness ==
    /\ pc = "idle"
    /\ Len(transactions) = 2
    /\ transactions[1].ticker = transactions[2].ticker
    /\ transactions[2].type = "buy"
    /\ transactions[2].id = ToDigits(clock)
    /\ manualPrices[transactions[2].ticker] = transactions[2].price

\* this step is a step of the memo
MemoStep == pc = "replay" \/ pc' = "replay"

(* C14: the derivation is deterministic and free of side effects: its      *)
(* result is a function of the log, the price map and the settings (the    *)
(* holdings and realized items are those of a replay, from empty           *)
(* accumulators, of the log in the order the sort gives it), and no step   *)
(* of it changes the log (order or content), the price map or the          *)
(* settings.                                                               *)
C14_DeriveIsPure ==
    /\ [][MemoStep => UNCHANGED <<transactions, manualPrices, settings>>]_vars
    /\ [](pc = "done" =>
             /\ sortedTrans \in SortOutcomes(transactions)
             /\ ConsistentComparator(transactions) =>
                    sortedTrans = StableSort(transactions)
             /\ holdings = finalHoldings(HoldingsOf(sortedTrans), manualPrices, settings)
             /\ realizedGains = finalRealized(RealizedOf(sortedTrans)))

\* a log entered out of date order has been derived: the sorted copy differs
\* from the log
C14_Witness ==
    /\ pc = "done"
    /\ Len(transactions) = 2
    /\ sortedTrans = <<transactions[2], transactions[1]>>
    /\ transactions[1] # transactions[2]
    /\ holdings # {}

(* C15: a holding whose totalCostBasis is 0 and a realized item whose      *)
(* totalCostRetired is 0 report roi = 0, and no roi is the result of a     *)
(* division by zero: it is a number, 100 * PL / cost when cost > 0.        *)
C15_RoiZeroCostGuard ==
    pc = "done" =>
        /\ \A h \in holdings :
               /\ h.totalCost = Zero => h.roi = Zero
               /\ ~IsNaN(h.roi)
               /\ RGt(h.totalCost, Zero) =>
                      RMul(h.roi, h.totalCost) = RMul(Num(100), h.unrealizedPL)
        /\ \A r \in realizedGains :
               /\ r.totalCost = Zero => r.roi = Zero
               /\ ~IsNaN(r.roi)
               /\ RGt(r.totalCost, Zero) =>
                      RMul(r.roi, r.totalCost) = RMul(Num(100), r.realizedPL)

\* a position bought at price 0 was sold: the realized item has retired no
\* cost, has a profit or loss, and reports roi 0
C15_Witness ==
    /\ pc = "done"
    /\ \E r \in realizedGains :
          r.totalCost = Zero /\ r.realizedPL # Zero /\ r.roi = Zero

\* a position bought at price 0 is open: the holding has no cost and roi 0
C15_WitnessHolding ==
    /\ pc = "done"
    /\ \E h \in holdings : h.totalCost = Zero /\ h.roi = Zero

(* C16: every transaction in the log stores fee >= 0 and tax >= 0 (the     *)
(* rates and minimum fees of the settings being non-negative).             *)
C16_FeeTaxNonNegative ==
    \A t \in Range(transactions) : RGe(t.fee, Zero) /\ RGe(t.tax, Zero)

\* the same for the transactions whose price and share count are positive
C16_OnWellFormed ==
    \A t \in Range(transactions) :
        WellFormed(t) => (RGe(t.fee, Zero) /\ RGe(t.tax, Zero))

\* manualPrices[ticker] || 0
ManualPriceOr0(k) ==
    IF k \in DOMAIN manualPrices /\ ~IsNaN(manualPrices[k]) THEN manualPrices[k] ELSE Zero

(* C17: for every visible holding marketValue is the settlement amount the *)
(* calculator returns for a sell of the held shares at currentPrice (the   *)
(* ticker's manual price, 0 when absent) under the holding's market and    *)
(* classification and the current settings, and unrealizedPL is            *)
(* marketValue - totalCostBasis.                                           *)
C17_MarketValueIsSellSettlement ==
    pc = "done" =>
        \A h \in holdings :
            /\ h.marketValue =
                   calculateTransactionAmount(settings, "sell", h.market,
                       ManualPriceOr0(h.ticker), h.shares, h.isETF).total
            /\ h.unrealizedPL = RSub(h.marketValue, h.totalCost)

\* 100 domestic shares bought at 1000 are valued at the manual price 1101:
\* 110100 less the fee 94 and the tax 330
C17_Witness ==
    /\ pc = "done"
    /\ settings = DEFAULT_SETTINGS
    /\ \E h \in holdings :
          /\ h.market = "TW" /\ h.shares = Num(100)
          /\ manualPrices[h.ticker] = Num(1101)
          /\ h.marketValue = Num(109676)
          /\ h.unrealizedPL = Num(9591)

\* the number of sells of ticker k in q that the replay of q applies: those
\* that find shares > 0
AppliedSells(q, k) ==
    Cardinality({ i \in 1..Len(q) :
                    /\ q[i].ticker = k /\ q[i].type = "sell"
                    /\ RGt(HeldShares(HoldingsOf(SubSeq(q, 1, i - 1)), k), Zero) })

(* C18: the derivation returns a holding for a ticker exactly when the     *)
(* ticker's replayed share count is above the closing epsilon, at most one *)
(* per ticker; and a realized item for a ticker exactly when at least one  *)
(* sell of the ticker was applied, with tradeCount the number of applied   *)
(* sells, whether or not the position is closed now.                       *)
C18_VisibleSetsExact ==
    pc = "done" =>
        /\ \A k \in TickersOf(sortedTrans) :
               /\ (\E h \in holdings : h.ticker = k)
                      <=> RGt(HeldShares(HoldingsOf(sortedTrans), k), Epsilon)
               /\ Cardinality({ h \in holdings : h.ticker = k }) <= 1
               /\ (\E r \in realizedGains : r.ticker = k)
                      <=> AppliedSells(sortedTrans, k) > 0
               /\ Cardinality({ r \in realizedGains : r.ticker = k }) <= 1
               /\ \A r \in realizedGains :
                      r.ticker = k => r.tradeCount = AppliedSells(sortedTrans, k)
        /\ \A h \in holdings : h.ticker \in TickersOf(sortedTrans)
        /\ \A r \in realizedGains : r.ticker \in TickersOf(sortedTrans)

\* a ticker was bought and sold out: it has a realized item counting the one
\* applied sell and no holding
C18_Witness ==
    /\ pc = "done"
    /\ Len(sortedTrans) = 2
    /\ sortedTrans[1].type = "buy" /\ sortedTrans[2].type = "sell"
    /\ \E r \in realizedGains : r.ticker = sortedTrans[1].ticker /\ r.tradeCount = 1
    /\ holdings = {}

\* a sell without a position was dropped: neither a holding nor a realized item
C18_WitnessDropped ==
    /\ pc = "done"
    /\ Len(sortedTrans) = 2
    /\ sortedTrans[1].type = "sell" /\ sortedTrans[2].type = "sell"
    /\ realizedGains = {} /\ holdings = {}

(* C19: a sell for more shares than are held (held shares > 0) is applied  *)
(* with the full trade quantity: costRetired = avgCost * tradeShares,      *)
(* realizedPL grows by settlement - costRetired, tradeCount by 1; the      *)
(* position is then shares = 0 and totalCostBasis = 0, and the replay goes *)
(* on with the next transaction.                                           *)
C19_OversizedSellClamped ==
    [][LET t == sortedTrans[idx + 1]
           k == t.ticker
       IN  (LoopStep /\ t.type = "sell" /\ RGt(HeldShares(tempHoldings, k), Zero)
                     /\ RGt(t.shares, HeldShares(tempHoldings, k))) =>
               LET avgCost == RDiv(tempHoldings[k].totalCost, tempHoldings[k].shares)
                   c == RMul(avgCost, t.shares)
               IN  /\ tempRealized'[k].totalCost = RAdd(RealizedCost(tempRealized, k), c)
                   /\ tempRealized'[k].totalRevenue
                          = RAdd(RealizedRevenue(tempRealized, k), t.totalAmount)
                   /\ tempRealized'[k].realizedPL
                          = RAdd(RealizedPL(tempRealized, k), RSub(t.totalAmount, c))
                   /\ tempRealized'[k].tradeCount = RealizedCount(tempRealized, k) + 1
                   /\ tempHoldings'[k].shares = Zero
                   /\ tempHoldings'[k].totalCost = Zero
                   /\ pc' = "replay" /\ sortedTrans' = sortedTrans
                   /\ \A x \in DOMAIN tempHoldings \ {k} :
                          tempHoldings'[x] = tempHoldings[x]]_vars

\* a sell of 25 shares has just been applied to a position of fewer shares
C19_Witness ==
    /\ pc = "replay" /\ idx >= 2
    /\ LET t == sortedTrans[idx]
           k == t.ticker
       IN  /\ t.type = "sell" /\ t.shares = Num(25)
           /\ RGt(HeldShares(HoldingsBefore, k), Zero)
           /\ RLt(HeldShares(HoldingsBefore, k), t.shares)
           /\ tempHoldings[k].shares = Zero /\ tempHoldings[k].totalCost = Zero
           /\ tempRealized[k].tradeCount = RealizedCount(RealizedBefore, k) + 1

\* what a holding carries over from the replay
Core(hs) ==
    { [ticker |-> h.ticker, shares |-> h.shares, totalCost |-> h.totalCost,
       avgCost |-> h.avgCost] : h \in hs }

\* other settings and other price maps the same log could be derived with
OtherSettings ==
    { DEFAULT_SETTINGS,
      [DEFAULT_SETTINGS EXCEPT !.twDiscount = ParseFloat(<<"1">>)],
      [DEFAULT_SETTINGS EXCEPT !.usMinFee = ParseFloat(<<"2">>)] }
OtherPrices ==
    { <<>> } \cup { [k \in TickersOf(transactions) |-> ParseFloat(x)] :
                      x \in { <<"1","1","0","1">>, <<"9","0">> } }

(* C20: the replay trusts the stored amounts: a change of the settings or  *)
(* of the manual prices changes no transaction that is in the log, and     *)
(* derivations of one log under different settings or price maps give the  *)
(* same shares, totalCostBasis and avgCost per ticker and the same         *)
(* realized items.                                                         *)
C20_ReplayTrustsStoredAmounts ==
    /\ [][/\ settings' # settings => transactions' = transactions
          /\ manualPrices' # manualPrices =>
                 \A i \in 1..Len(transactions') :
                     \/ transactions'[i] \in Range(transactions)
                     \/ Appends /\ i = Len(transactions')]_vars
    /\ [](pc = "done" =>
             /\ \A s2 \in OtherSettings, p2 \in OtherPrices :
                    Core(finalHoldings(HoldingsOf(sortedTrans), p2, s2)) = Core(holdings)
             /\ realizedGains = finalRealized(RealizedOf(sortedTrans)))

\* a domestic buy stored with the fee of the default discount (85) is
\* derived after the discount was changed: its cost basis is still 100085
C20_Witness ==
    /\ pc = "done"
    /\ settings # DEFAULT_SETTINGS
    /\ \E i \in 1..Len(transactions) :
          transactions[i].type = "buy" /\ transactions[i].fee = Num(85)
    /\ \E h \in holdings : h.totalCost = Num(100085) /\ h.shares = Num(100)

\* the price map with the entry of ticker k alone
PriceOf(k) == [x \in DOMAIN manualPrices \cap {k} |-> manualPrices[x]]

\* what the derivation gives ticker k when the log holds the transactions of
\* k alone, their dates being valid: the replay of their stable sort
HoldingAlone(k) ==
    finalHoldings(HoldingsOf(StableSort(OfTicker(transactions, k))), PriceOf(k), settings)
RealizedAlone(k) == finalRealized(RealizedOf(StableSort(OfTicker(transactions, k))))

\* the dates of all transactions of q are valid
AllDated(q) == \A i \in 1..Len(q) : IsDateText(q[i].date)

(* C21: the holding and the realized item derived for a ticker are those   *)
(* derived from the ticker's transactions alone: the transactions and the  *)
(* manual prices of other tickers do not change them.                      *)
C21_PartitionedByTicker ==
    pc = "done" =>
        \A k \in TickersOf(transactions) :
            AllDated(OfTicker(transactions, k)) =>
                /\ { h \in holdings : h.ticker = k } = HoldingAlone(k)
                /\ { r \in realizedGains : r.ticker = k } = RealizedAlone(k)

\* the same for the logs in which every date is valid
C21_OnDatedLog == AllDated(transactions) => C21_PartitionedByTicker

\* x carries the name, market and fund classification of transaction t
SeededFrom(x, t) == x.name = t.name /\ x.market = t.market /\ x.isETF = t.isETF

(* C22: the name, market and fund classification of a ticker's holding and *)
(* realized item are those of the chronologically first transaction of the *)
(* ticker (the first entered among those of the earliest date).            *)
C22_SeededFromFirstByDate ==
    pc = "done" =>
        \A k \in TickersOf(transactions) :
            AllDated(OfTicker(transactions, k)) =>
                \A x \in { h \in holdings : h.ticker = k }
                         \cup { r \in realizedGains : r.ticker = k } :
                    SeededFrom(x, StableSort(OfTicker(transactions, k))[1])

\* the accumulators of a ticker carry the seed of the first transaction of
\* the ticker the loop has processed, whatever came after it
C22_SeededFromFirstReplayed ==
    Replaying =>
        /\ DOMAIN tempHoldings = TickersOf(Processed)
        /\ DOMAIN tempRealized = TickersOf(Processed)
        /\ \A k \in TickersOf(Processed) :
               /\ SeededFrom(tempHoldings[k], OfTicker(Processed, k)[1])
               /\ SeededFrom(tempRealized[k], OfTicker(Processed, k)[1])

\* the same as C22_SeededFromFirstByDate for the logs in which every date is
\* valid
C22_OnDatedLog == AllDated(transactions) => C22_SeededFromFirstByDate

\* the last transaction of q is a sell of ticker k made while shares of k
\* were held: a sell the loop applies
LastIsAppliedSell(q, k) ==
    /\ q # <<>>
    /\ q[Len(q)].ticker = k /\ q[Len(q)].type = "sell"
    /\ RGt(HeldShares(HoldingsOf(SubSeq(q, 1, Len(q) - 1)), k), Zero)

\* the sum of the settlement amounts of the applied sells of ticker k in q
RECURSIVE AppliedRevenue(_, _)
AppliedRevenue(q, k) ==
    IF q = <<>> THEN Zero
    ELSE LET p == SubSeq(q, 1, Len(q) - 1)
         IN  IF LastIsAppliedSell(q, k)
             THEN RAdd(AppliedRevenue(p, k), q[Len(q)].totalAmount)
             ELSE AppliedRevenue(p, k)

\* the sum of the cost the applied sells of ticker k in q retired: for each,
\* the average cost before the sell times the shares of the trade
RECURSIVE AppliedRetired(_, _)
AppliedRetired(q, k) ==
    IF q = <<>> THEN Zero
    ELSE LET p == SubSeq(q, 1, Len(q) - 1)
         IN  IF LastIsAppliedSell(q, k)
             THEN RAdd(AppliedRetired(p, k),
                       CostRetired(HeldCost(HoldingsOf(p), k),
                                   HeldShares(HoldingsOf(p), k), q[Len(q)].shares))
             ELSE AppliedRetired(p, k)

(* C23: after any replay prefix and for every ticker, realizedPL =         *)
(* totalRevenue - totalCostRetired, totalRevenue is the sum of the         *)
(* settlement amounts of the applied sells of the ticker and               *)
(* totalCostRetired the sum of the cost they retired.                      *)
C23_RealizedIsRevenueMinusRetired ==
    Replaying =>
        \A k \in DOMAIN tempRealized :
            /\ tempRealized[k].realizedPL
                   = RSub(tempRealized[k].totalRevenue, tempRealized[k].totalCost)
            /\ tempRealized[k].totalRevenue = AppliedRevenue(Processed, k)
            /\ tempRealized[k].totalCost = AppliedRetired(Processed, k)

\* two sells of a ticker have been applied, at a profit over the cost retired
\* and with a fee or tax taken from the proceeds
C23_Witness ==
    /\ Replaying
    /\ \E k \in DOMAIN tempRealized :
           /\ tempRealized[k].tradeCount >= 2
           /\ RGt(tempRealized[k].totalCost, Zero)
           /\ RGt(tempRealized[k].realizedPL, Zero)
           /\ tempRealized[k].totalRevenue = AppliedRevenue(Processed, k)
           /\ \E i \in 1..idx :
                  /\ LastIsAppliedSell(SubSeq(sortedTrans, 1, i), k)
                  /\ sortedTrans[i].totalAmount
                         # RMul(sortedTrans[i].price, sortedTrans[i].shares)

\* newCost * oldShares = oldCost * newShares for oldShares > 0, stated on
\* the fractions that remain so that no product leaves the 32-bit integers
\* of TLC: the cost that remains is to the old cost as the shares that
\* remain are to the old shares
SameFraction(newCost, oldCost, newShares, oldShares) ==
    IF oldCost = Zero THEN newCost = Zero
    ELSE RDiv(newCost, oldCost) = RDiv(newShares, oldShares)

State == [transactions |-> transactions, settings |-> settings,
          manualPrices |-> manualPrices]

(* C25: when the page is opened again, the startup (load effect, then save *)
(* effect of the mount, then the render of what was loaded) ends with the  *)
(* transactions and manual prices that were persisted, with the persisted  *)
(* settings spread over the defaults, and with the item holding them       *)
(* again; until then what was persisted is in the item or in the state the *)
(* load effect has set; and whenever the page is at rest the item is the   *)
(* save of its state.                                                      *)
C25_RestartRestores ==
    /\ [][(mount # "mounted" /\ mount' = "mounted" /\ persisted # <<>>) =>
              LET was == JsonParse(persisted[1])
              IN  /\ transactions' = was.transactions
                  /\ manualPrices' = was.manualPrices
                  /\ settings' = [f \in DOMAIN DEFAULT_SETTINGS \cup DOMAIN was.settings |->
                                     IF f \in DOMAIN was.settings THEN was.settings[f]
                                     ELSE DEFAULT_SETTINGS[f]]
                  /\ localStorage' = persisted]_vars
    /\ [](persisted # <<>> =>
              \/ localStorage = persisted
              \/ queued # <<>> /\ queued[1].transactions
                                     = JsonParse(persisted[1]).transactions)
    /\ [](mount = "mounted" =>
              localStorage = <<Stringify(transactions, settings, manualPrices)>>)

\* in these runs, whose numbers are all finite, the item reads back to the
\* very state it is the save of
C25_SavedStateReadsBack == mount = "mounted" => LoadedState(localStorage[1]) = State

\* the page was closed with two transactions, a manual price and a changed
\* discount saved, amounts with decimals among them, and has been opened
\* again: the startup is over and the state is the one that was saved
C25_Witness ==
    /\ mount = "mounted"
    /\ persisted # <<>>
    /\ Len(persisted[1].transactions) = 2
    /\ transactions = JsonParse(persisted[1]).transactions
    /\ \E i \in 1..Len(transactions) :
           transactions[i].totalAmount[2] > 1 /\ transactions[i].price[2] > 1
    /\ DOMAIN manualPrices # {}
    /\ manualPrices = JsonParse(persisted[1]).manualPrices
    /\ settings # DEFAULT_SETTINGS
    /\ localStorage = persisted

====
